---- MODULE Spec2Model ----
(***************************************************************************)
(* Blogicum: the views of blogicum/blog/views.py and                       *)
(* blogicum/users/views.py over the tables they query (Post, Category,     *)
(* Comment, User).  Every action is one HTTP request served by one view;   *)
(* `request` and `response` hold the request just served and its answer.   *)
(***************************************************************************)
EXTENDS Integers, Sequences, FiniteSets, TLC

VARIABLES posts, postSeq, comments, commentSeq, categories, users, now,
          request, response

vars == <<posts, postSeq, comments, commentSeq, categories, users, now,
          request, response>>

db == <<posts, postSeq, comments, commentSeq, categories, users>>

\* ------------------------------------------------------------------------
\* Bounds of the model
\* ------------------------------------------------------------------------
MaxPosts == 2
MaxComments == 1
MaxTime == 1

UserIds == {"u1", "u2"}
Usernames == {"alice", "bob", "carol"}
FirstNames == {"", "A"}
CategoryIds == {"c1", "c2"}
Slugs == {"news", "travel", "nowhere"}
Texts == {"x", "y"}
Methods == {"GET", "POST"}

PostIds == 1..MaxPosts
CommentIds == 1..MaxComments
Times == 0..MaxTime

\* request.user of a request without a session; a post's category when the
\* foreign key is NULL
AnonymousUser == "AnonymousUser"
Null == "NULL"

\* ------------------------------------------------------------------------
\* Rows, requests, responses
\* ------------------------------------------------------------------------
PostRows == [author : UserIds, is_published : BOOLEAN, pub_date : Times,
             category : CategoryIds \cup {Null}]

CommentRows == [author : UserIds, post : PostIds, text : Texts]

paginate_by == 10

Min(a, b) == IF a <= b THEN a ELSE b

Range(s) == {s[i] : i \in DOMAIN s}

NoUrl == [name |-> "", post_id |-> 0, username |-> ""]

Url(name, post_id, username) ==
    [name |-> name, post_id |-> post_id, username |-> username]

\* A request: the view it is routed to, its method, request.user, the path
\* parameters, and the author value the client put in the POST data
Request(view, method, user) ==
    [view |-> view, method |-> method, user |-> user, post_id |-> 0,
     comment_id |-> 0, username |-> "", category_slug |-> "", author |-> ""]

NoContext == [page_obj |-> <<>>, post |-> 0, comments |-> {}, category |-> "",
              profile |-> "", form |-> ""]

Render(template, context) ==
    [status |-> 200, template |-> template, url |-> NoUrl, context |-> context]

redirect(url) ==
    [status |-> 302, template |-> "", url |-> url, context |-> NoContext]

Http404 ==
    [status |-> 404, template |-> "pages/404.html", url |-> NoUrl,
     context |-> NoContext]

is_authenticated(user) == user # AnonymousUser

Viewers == DOMAIN users \cup {AnonymousUser}

\* ------------------------------------------------------------------------
\* Queryset helpers
\* ------------------------------------------------------------------------
\* category__is_published=True: a join on the category, so a post whose
\* category is NULL matches no row
category__is_published(id) ==
    /\ posts[id].category # Null
    /\ categories[posts[id].category].is_published

\* .order_by('-pub_date'): every order the database may return, since rows
\* with equal pub_date come in no specified order
order_by_pub_date_desc(S) ==
    {s \in [1..Cardinality(S) -> S] :
        /\ \A i, j \in 1..Cardinality(S) : i # j => s[i] # s[j]
        /\ \A i, j \in 1..Cardinality(S) :
              i < j => posts[s[i]].pub_date >= posts[s[j]].pub_date}

\* Paginator(queryset, 10).get_page(None): the first page
get_page(s) == SubSeq(s, 1, Min(Len(s), paginate_by))

\* get_object_or_404(Category, slug=..., is_published=True): the matching
\* category ids (slug is unique, so at most one)
published_category(slug) ==
    {c \in DOMAIN categories :
        categories[c].slug = slug /\ categories[c].is_published}

\* get_object_or_404(get_user_model(), username=...)
user_by_username(username) ==
    {u \in DOMAIN users : users[u].username = username}

\* post.comments
comments_of(post_id) == {c \in DOMAIN comments : comments[c].post = post_id}

\* ------------------------------------------------------------------------
\* Read views
\* ------------------------------------------------------------------------
IndexView_get_queryset(t) ==
    {id \in DOMAIN posts :
        /\ posts[id].is_published
        /\ category__is_published(id)
        /\ posts[id].pub_date <= t}

IndexView ==
    \E user \in Viewers, t \in now..MaxTime :
      \E page \in order_by_pub_date_desc(IndexView_get_queryset(t)) :
        /\ now' = t
        /\ request' = Request("IndexView", "GET", user)
        /\ response' = Render("blog/index.html",
                              [NoContext EXCEPT !.page_obj = get_page(page)])
        /\ UNCHANGED db

post_detail_lookup(id, t) ==
    {p \in DOMAIN posts :
        /\ p = id
        /\ posts[p].is_published
        /\ category__is_published(p)
        /\ posts[p].pub_date <= t}

post_detail ==
    \E user \in Viewers, id \in PostIds, t \in now..MaxTime :
        /\ now' = t
        /\ request' = [Request("post_detail", "GET", user) EXCEPT !.post_id = id]
        /\ response' = IF post_detail_lookup(id, t) = {}
                       THEN Http404
                       ELSE Render("blog/detail.html",
                                   [NoContext EXCEPT !.post = id])
        /\ UNCHANGED db

category_posts_list(category, t) ==
    {id \in DOMAIN posts :
        /\ posts[id].category = category
        /\ posts[id].is_published
        /\ posts[id].pub_date <= t}

category_posts ==
    \E user \in Viewers, slug \in Slugs, t \in now..MaxTime :
        /\ now' = t
        /\ request' = [Request("category_posts", "GET", user)
                         EXCEPT !.category_slug = slug]
        /\ IF published_category(slug) = {}
           THEN response' = Http404
           ELSE \E category \in published_category(slug) :
                \E post_list \in
                      order_by_pub_date_desc(category_posts_list(category, t)) :
                   response' = Render("blog/category.html",
                                      [NoContext EXCEPT
                                          !.category = category,
                                          !.page_obj = post_list])
        /\ UNCHANGED db

\* CategoryPostView's category lookup without is_published=True
CategoryPostView_category_any(slug) ==
    {c \in DOMAIN categories : categories[c].slug = slug}

CategoryPostView_category(slug) == published_category(slug)

CategoryPostView_get_queryset(category, t) ==
    {id \in DOMAIN posts :
        /\ posts[id].category = category
        /\ posts[id].is_published
        /\ posts[id].pub_date <= t}

CategoryPostView ==
    \E user \in Viewers, slug \in Slugs, t \in now..MaxTime :
        /\ now' = t
        /\ request' = [Request("CategoryPostView", "GET", user)
                         EXCEPT !.category_slug = slug]
        /\ IF CategoryPostView_category(slug) = {}
           THEN response' = Http404
           ELSE \E category \in CategoryPostView_category(slug) :
                \E page \in order_by_pub_date_desc(
                               CategoryPostView_get_queryset(category, t)) :
                   response' = Render("blog/category.html",
                                      [NoContext EXCEPT
                                          !.category = category,
                                          !.page_obj = get_page(page)])
        /\ UNCHANGED db

ProfileView_posts(user, profile_user, t) ==
    LET all == {id \in DOMAIN posts : posts[id].author = profile_user}
    IN  IF user # profile_user
        THEN {id \in all : posts[id].is_published /\ posts[id].pub_date <= t}
        ELSE all

ProfileView ==
    \E user \in Viewers, username \in Usernames, t \in now..MaxTime :
        /\ now' = t
        /\ request' = [Request("ProfileView", "GET", user)
                         EXCEPT !.username = username]
        /\ IF user_by_username(username) = {}
           THEN response' = Http404
           ELSE \E profile_user \in user_by_username(username) :
                \E page \in order_by_pub_date_desc(
                               ProfileView_posts(user, profile_user, t)) :
                   response' = Render("blog/profile.html",
                                      [NoContext EXCEPT
                                          !.profile = profile_user,
                                          !.page_obj = get_page(page)])
        /\ UNCHANGED db

\* PostDetailView.get_object without the author's branch: every viewer gets
\* the filtered lookup
PostDetailView_get_object_no_author(user, post_id, t) ==
    {p \in {post_id} \cap DOMAIN posts :
        /\ posts[p].is_published
        /\ category__is_published(p)
        /\ posts[p].pub_date <= t}

\* PostDetailView.get_object deciding as get_queryset does: any
\* authenticated viewer gets every post
PostDetailView_get_object_any_user(user, post_id, t) ==
    IF post_id \notin DOMAIN posts
    THEN {}
    ELSE IF ~is_authenticated(user)
         THEN {p \in {post_id} :
                 /\ posts[p].is_published
                 /\ category__is_published(p)
                 /\ posts[p].pub_date <= t}
         ELSE {post_id}

\* PostDetailView.get_object: the post served, as a set (empty: Http404)
PostDetailView_get_object(user, post_id, t) ==
    IF post_id \notin DOMAIN posts
    THEN {}
    ELSE IF ~is_authenticated(user) \/ user # posts[post_id].author
         THEN {p \in {post_id} :
                 /\ posts[p].is_published
                 /\ category__is_published(p)
                 /\ posts[p].pub_date <= t}
         ELSE {post_id}

PostDetailView_get(user, post_id, t) ==
    IF PostDetailView_get_object(user, post_id, t) = {}
    THEN Http404
    ELSE Render("blog/detail.html",
                [NoContext EXCEPT !.post = post_id,
                                  !.form = "CommentForm",
                                  !.comments = comments_of(post_id)])

PostDetailView ==
    \E user \in Viewers, post_id \in PostIds, t \in now..MaxTime :
        /\ now' = t
        /\ request' = [Request("PostDetailView", "GET", user)
                         EXCEPT !.post_id = post_id]
        /\ response' = PostDetailView_get(user, post_id, t)
        /\ UNCHANGED db

\* ------------------------------------------------------------------------
\* The read views over an arbitrary database
\* ------------------------------------------------------------------------
UserFixture ==
    [u \in UserIds |->
        [username |-> IF u = "u1" THEN "alice" ELSE "bob", first_name |-> ""]]

\* The Category table, managed outside these views: one published category
\* and one withdrawn from publication
CategoryFixture ==
    [c \in CategoryIds |->
        [slug |-> IF c = "c1" THEN "news" ELSE "travel",
         is_published |-> (c = "c1")]]

NoRequest == Request("", "", AnonymousUser)

InitView ==
    /\ \E ids \in SUBSET PostIds : posts \in [ids -> PostRows]
    /\ postSeq = MaxPosts
    /\ comments = << >>
    /\ commentSeq = 0
    /\ categories = CategoryFixture
    /\ users = UserFixture
    /\ now = 0
    /\ request = NoRequest
    /\ response = Render("", NoContext)

NextView ==
    \/ IndexView
    \/ post_detail
    \/ category_posts
    \/ CategoryPostView
    \/ ProfileView
    \/ PostDetailView

SpecView == InitView /\ [][NextView]_vars

\* ------------------------------------------------------------------------
\* Write views on posts and comments
\* ------------------------------------------------------------------------
LoginUrl == Url("login", 0, "")

ServerError ==
    [status |-> 500, template |-> "pages/500.html", url |-> NoUrl,
     context |-> NoContext]

\* A dispatch() override that found nothing to object to and calls
\* super().dispatch()
Proceed == [status |-> 0, template |-> "", url |-> NoUrl, context |-> NoContext]

\* The cleaned data of a valid post form (of its fields, those the model
\* reads) and of a valid comment form
PostData == [pub_date : Times, category : CategoryIds \cup {Null}]

CommentData == [text : Texts]

\* The author value a client may put in its POST data, a field neither
\* form has
ClientAuthors == UserIds

Insert(table, pk, row) ==
    [k \in DOMAIN table \cup {pk} |-> IF k = pk THEN row ELSE table[k]]

Delete(table, pks) == [k \in DOMAIN table \ pks |-> table[k]]

\* PostCreateView.form_valid keeping the author the client sent
PostCreateView_form_valid_client_author(user, data, client_author) ==
    [author |-> client_author, is_published |-> TRUE,
     pub_date |-> data.pub_date, category |-> data.category]

\* The row PostCreateView.form_valid saves.  is_published is no field of
\* the form: the new row has the model's default, a published post
PostCreateView_form_valid(user, data, client_author) ==
    [author |-> user, is_published |-> TRUE,
     pub_date |-> data.pub_date, category |-> data.category]

PostCreateView ==
    \E user \in Viewers, method \in Methods :
        /\ IF ~is_authenticated(user)
           THEN /\ request' = Request("PostCreateView", method, user)
                /\ response' = redirect(LoginUrl)
                /\ UNCHANGED <<posts, postSeq>>
           ELSE IF method = "GET"
           THEN /\ request' = Request("PostCreateView", method, user)
                /\ response' = Render("blog/create.html",
                                      [NoContext EXCEPT !.form = "PostForm"])
                /\ UNCHANGED <<posts, postSeq>>
           ELSE \E client_author \in ClientAuthors, is_valid \in BOOLEAN :
                /\ request' = [Request("PostCreateView", method, user) EXCEPT
                                  !.author = client_author]
                /\ IF ~is_valid
                   THEN /\ response' = Render("blog/create.html",
                                          [NoContext EXCEPT !.form = "PostForm"])
                        /\ UNCHANGED <<posts, postSeq>>
                   ELSE \E data \in PostData :
                        /\ postSeq < MaxPosts
                        /\ postSeq' = postSeq + 1
                        /\ posts' = Insert(posts, postSeq + 1,
                              PostCreateView_form_valid(user, data, client_author))
                        /\ response' = redirect(
                              Url("blog:profile", 0, users[user].username))
        /\ UNCHANGED <<comments, commentSeq, categories, users, now>>

\* PostUpdateView.dispatch without the author test
PostUpdateView_dispatch_no_check(user, post_id) ==
    IF post_id \notin DOMAIN posts THEN Http404 ELSE Proceed

PostUpdateView_dispatch(user, post_id) ==
    IF post_id \notin DOMAIN posts
    THEN Http404
    ELSE IF posts[post_id].author # user
         THEN redirect(Url("blog:post_detail", post_id, ""))
         ELSE Proceed

\* PostUpdateView sets no success_url: the redirect after a save goes to
\* the model's get_absolute_url(), and is a server error if the model has
\* none
PostUpdateView_success(post_id) ==
    {redirect(Url("Post.get_absolute_url", post_id, "")), ServerError}

PostUpdateView ==
    \E user \in Viewers, method \in Methods, post_id \in PostIds :
        /\ request' = [Request("PostUpdateView", method, user) EXCEPT
                          !.post_id = post_id]
        /\ IF PostUpdateView_dispatch(user, post_id) # Proceed
           THEN /\ response' = PostUpdateView_dispatch(user, post_id)
                /\ UNCHANGED posts
           ELSE IF ~is_authenticated(user)
           THEN /\ response' = redirect(LoginUrl)
                /\ UNCHANGED posts
           ELSE IF method = "GET"
           THEN /\ response' = Render("blog/create.html",
                                      [NoContext EXCEPT !.post = post_id,
                                                        !.form = "PostForm"])
                /\ UNCHANGED posts
           ELSE \E is_valid \in BOOLEAN :
                IF ~is_valid
                THEN /\ response' = Render("blog/create.html",
                                       [NoContext EXCEPT !.post = post_id,
                                                         !.form = "PostForm"])
                     /\ UNCHANGED posts
                ELSE \E data \in PostData :
                     /\ posts' = [posts EXCEPT
                                     ![post_id].pub_date = data.pub_date,
                                     ![post_id].category = data.category]
                     /\ response' \in PostUpdateView_success(post_id)
        /\ UNCHANGED <<postSeq, comments, commentSeq, categories, users, now>>

\* PostDeleteView.dispatch letting every authenticated user through
PostDeleteView_dispatch_any_user(user, post_id) ==
    IF post_id \notin DOMAIN posts
    THEN Http404
    ELSE IF ~is_authenticated(user)
         THEN redirect(Url("blog:post_detail", post_id, ""))
         ELSE Proceed

PostDeleteView_dispatch(user, post_id) ==
    IF post_id \notin DOMAIN posts
    THEN Http404
    ELSE IF posts[post_id].author # user
         THEN redirect(Url("blog:post_detail", post_id, ""))
         ELSE Proceed

\* Deleting a post deletes the comments that point to it
cascade(post_id) == Delete(comments, comments_of(post_id))

PostDeleteView ==
    \E user \in Viewers, method \in Methods, post_id \in PostIds :
        /\ request' = [Request("PostDeleteView", method, user) EXCEPT
                          !.post_id = post_id]
        /\ IF PostDeleteView_dispatch(user, post_id) # Proceed
           THEN /\ response' = PostDeleteView_dispatch(user, post_id)
                /\ UNCHANGED <<posts, comments>>
           ELSE IF ~is_authenticated(user)
           THEN /\ response' = redirect(LoginUrl)
                /\ UNCHANGED <<posts, comments>>
           ELSE IF method = "GET"
           THEN /\ response' = Render("blog/post_confirm_delete.html",
                                      [NoContext EXCEPT !.post = post_id])
                /\ UNCHANGED <<posts, comments>>
           ELSE /\ posts' = Delete(posts, {post_id})
                /\ comments' = cascade(post_id)
                /\ response' = redirect(Url("blog:index", 0, ""))
        /\ UNCHANGED <<postSeq, commentSeq, categories, users, now>>

\* The row CommentCreateView.form_valid saves
CommentCreateView_form_valid(user, post_id, data, client_author) ==
    [author |-> user, post |-> post_id, text |-> data.text]

CommentCreateView ==
    \E user \in Viewers, method \in Methods, post_id \in PostIds :
        /\ IF ~is_authenticated(user)
           THEN /\ request' = [Request("CommentCreateView", method, user)
                                  EXCEPT !.post_id = post_id]
                /\ response' = redirect(LoginUrl)
                /\ UNCHANGED <<comments, commentSeq>>
           ELSE IF method = "GET"
           THEN /\ request' = [Request("CommentCreateView", method, user)
                                  EXCEPT !.post_id = post_id]
                /\ response' = Render("blog/comment.html",
                                      [NoContext EXCEPT !.form = "CommentForm"])
                /\ UNCHANGED <<comments, commentSeq>>
           ELSE \E client_author \in ClientAuthors, is_valid \in BOOLEAN :
                /\ request' = [Request("CommentCreateView", method, user)
                                  EXCEPT !.post_id = post_id,
                                         !.author = client_author]
                /\ IF ~is_valid
                   THEN /\ response' = Render("blog/comment.html",
                                       [NoContext EXCEPT !.form = "CommentForm"])
                        /\ UNCHANGED <<comments, commentSeq>>
                   ELSE IF post_id \notin DOMAIN posts
                   THEN /\ response' = Http404
                        /\ UNCHANGED <<comments, commentSeq>>
                   ELSE \E data \in CommentData :
                        /\ commentSeq < MaxComments
                        /\ commentSeq' = commentSeq + 1
                        /\ comments' = Insert(comments, commentSeq + 1,
                              CommentCreateView_form_valid(user, post_id, data,
                                                           client_author))
                        /\ response' = redirect(
                              Url("blog:post_detail", post_id, ""))
        /\ UNCHANGED <<posts, postSeq, categories, users, now>>

CommentUpdateView_dispatch(user, comment_id) ==
    IF comment_id \notin DOMAIN comments
    THEN Http404
    ELSE IF comments[comment_id].author # user
         THEN redirect(Url("blog:post_detail", comments[comment_id].post, ""))
         ELSE Proceed

CommentUpdateView ==
    \E user \in Viewers, method \in Methods, comment_id \in CommentIds :
        /\ request' = [Request("CommentUpdateView", method, user) EXCEPT
                          !.comment_id = comment_id]
        /\ IF CommentUpdateView_dispatch(user, comment_id) # Proceed
           THEN /\ response' = CommentUpdateView_dispatch(user, comment_id)
                /\ UNCHANGED comments
           ELSE IF ~is_authenticated(user)
           THEN /\ response' = redirect(LoginUrl)
                /\ UNCHANGED comments
           ELSE IF method = "GET"
           THEN /\ response' = Render("blog/comment.html",
                                      [NoContext EXCEPT
                                          !.post = comments[comment_id].post,
                                          !.form = "CommentForm"])
                /\ UNCHANGED comments
           ELSE \E is_valid \in BOOLEAN :
                IF ~is_valid
                THEN /\ response' = Render("blog/comment.html",
                                       [NoContext EXCEPT
                                           !.post = comments[comment_id].post,
                                           !.form = "CommentForm"])
                     /\ UNCHANGED comments
                ELSE \E data \in CommentData :
                     /\ comments' = [comments EXCEPT
                                        ![comment_id].text = data.text]
                     /\ response' = redirect(
                           Url("blog:post_detail", comments[comment_id].post, ""))
        /\ UNCHANGED <<posts, postSeq, commentSeq, categories, users, now>>

CommentDeleteView_dispatch(user, comment_id) ==
    IF comment_id \notin DOMAIN comments
    THEN Http404
    ELSE IF comments[comment_id].author # user
         THEN redirect(Url("blog:post_detail", comments[comment_id].post, ""))
         ELSE Proceed

CommentDeleteView ==
    \E user \in Viewers, method \in Methods, comment_id \in CommentIds :
        /\ request' = [Request("CommentDeleteView", method, user) EXCEPT
                          !.comment_id = comment_id]
        /\ IF CommentDeleteView_dispatch(user, comment_id) # Proceed
           THEN /\ response' = CommentDeleteView_dispatch(user, comment_id)
                /\ UNCHANGED comments
           ELSE IF ~is_authenticated(user)
           THEN /\ response' = redirect(LoginUrl)
                /\ UNCHANGED comments
           ELSE IF method = "GET"
           THEN /\ response' = Render("blog/comment.html",
                                      [NoContext EXCEPT
                                          !.post = comments[comment_id].post])
                /\ UNCHANGED comments
           ELSE /\ comments' = Delete(comments, {comment_id})
                /\ response' = redirect(
                      Url("blog:post_detail", comments[comment_id].post, ""))
        /\ UNCHANGED <<posts, postSeq, commentSeq, categories, users, now>>

InitWrite ==
    /\ posts = << >>
    /\ postSeq = 0
    /\ comments = << >>
    /\ commentSeq = 0
    /\ categories = CategoryFixture
    /\ users = UserFixture
    /\ now = 0
    /\ request = NoRequest
    /\ response = Render("", NoContext)

NextWrite ==
    \/ PostCreateView
    \/ PostUpdateView
    \/ PostDeleteView
    \/ CommentCreateView
    \/ CommentUpdateView
    \/ CommentDeleteView

SpecWrite == InitWrite /\ [][NextWrite]_vars

\* ------------------------------------------------------------------------
\* Registration and profile editing
\* ------------------------------------------------------------------------
\* The cleaned data of a valid UserChangeForm (of its fields, those the
\* model keeps) and of a valid UserCreationForm
ProfileData == [username : Usernames, first_name : FirstNames]

RegistrationView ==
    \E user \in Viewers, method \in Methods :
        /\ request' = Request("RegistrationView", method, user)
        /\ IF method = "GET"
           THEN /\ response' = Render("registration/registration_form.html",
                                 [NoContext EXCEPT !.form = "UserCreationForm"])
                /\ UNCHANGED users
           ELSE \E username \in Usernames, is_valid \in BOOLEAN :
                IF ~is_valid \/ user_by_username(username) # {}
                THEN /\ response' = Render("registration/registration_form.html",
                                 [NoContext EXCEPT !.form = "UserCreationForm"])
                     /\ UNCHANGED users
                ELSE /\ UserIds \ DOMAIN users # {}
                     /\ users' = Insert(users,
                                   CHOOSE pk \in UserIds \ DOMAIN users : TRUE,
                                   [username |-> username, first_name |-> ""])
                     /\ response' = redirect(LoginUrl)
        /\ UNCHANGED <<posts, postSeq, comments, commentSeq, categories, now>>

\* ProfileUpdateView.test_func letting every authenticated user through
ProfileUpdateView_test_func_any_user(user, username) == TRUE

ProfileUpdateView_test_func(user, username) ==
    users[user].username = username

ProfileUpdateView_handle_no_permission(user, username) ==
    redirect(Url("blog:profile", 0, username))

ProfileUpdateView ==
    \E user \in Viewers, method \in Methods, username \in Usernames :
        /\ request' = [Request("ProfileUpdateView", method, user) EXCEPT
                          !.username = username]
        /\ IF ~is_authenticated(user)
           THEN /\ response' = ProfileUpdateView_handle_no_permission(user, username)
                /\ UNCHANGED users
           ELSE IF ~ProfileUpdateView_test_func(user, username)
           THEN /\ response' = ProfileUpdateView_handle_no_permission(user, username)
                /\ UNCHANGED users
           ELSE IF user_by_username(username) = {}
           THEN /\ response' = Http404
                /\ UNCHANGED users
           ELSE \E object \in user_by_username(username) :
                IF method = "GET"
                THEN /\ response' = Render("blog/user_form.html",
                                      [NoContext EXCEPT
                                          !.profile = object,
                                          !.form = "UserChangeForm"])
                     /\ UNCHANGED users
                ELSE \E data \in ProfileData, is_valid \in BOOLEAN :
                     IF \/ ~is_valid
                        \/ user_by_username(data.username) \ {object} # {}
                     THEN /\ response' = Render("blog/user_form.html",
                                           [NoContext EXCEPT
                                               !.profile = object,
                                               !.form = "UserChangeForm"])
                          /\ UNCHANGED users
                     ELSE /\ users' = [users EXCEPT ![object] = data]
                          /\ response' = redirect(Url("blog:profile", 0, username))
        /\ UNCHANGED <<posts, postSeq, comments, commentSeq, categories, now>>

InitProfile ==
    /\ posts = << >>
    /\ postSeq = 0
    /\ comments = << >>
    /\ commentSeq = 0
    /\ categories = CategoryFixture
    /\ users = << >>
    /\ now = 0
    /\ request = NoRequest
    /\ response = Render("", NoContext)

NextProfile ==
    \/ RegistrationView
    \/ ProfileUpdateView

SpecProfile == InitProfile /\ [][NextProfile]_vars

\* ------------------------------------------------------------------------
\* Properties of the read views
\* ------------------------------------------------------------------------
NoDuplicates(s) == Cardinality(Range(s)) = Len(s)

SortedByPubDateDesc(s) ==
    \A i, j \in DOMAIN s : i < j => posts[s[i]].pub_date >= posts[s[j]].pub_date

\* The visibility predicate as the specification words it: a post without a
\* category passes the category test
is_publicly_visible(id) ==
    /\ posts[id].is_published
    /\ \/ posts[id].category = Null
       \/ categories[posts[id].category].is_published
    /\ posts[id].pub_date <= now

\* C1: the index lists exactly the posts that are published, past-dated
\* and whose category is null or published; so a published past-dated post
\* without a category is listed.
C1_IndexListsVisiblePosts ==
    request.view = "IndexView" =>
        Range(response.context.page_obj) =
            {id \in DOMAIN posts : is_publicly_visible(id)}

\* C2: the post detail view serves a post to its authenticated author
\* whatever the post's is_published, category and pub_date are.
C2_AuthorSeesOwnPost ==
    (/\ request.view = "PostDetailView"
     /\ request.post_id \in DOMAIN posts
     /\ is_authenticated(request.user)
     /\ request.user = posts[request.post_id].author)
       => /\ response.status = 200
          /\ response.context.post = request.post_id

C2_Witness ==
    /\ request.view = "PostDetailView"
    /\ request.post_id \in DOMAIN posts
    /\ request.user = posts[request.post_id].author
    /\ ~posts[request.post_id].is_published
    /\ posts[request.post_id].pub_date > now
    /\ posts[request.post_id].category # Null
    /\ ~categories[posts[request.post_id].category].is_published
    /\ response.status = 200

AbsentPostId == MaxPosts + 1

\* C3: a viewer who is not the author gets NotFound for a post that is
\* unpublished, in an unpublished category or future-dated, and that
\* response is the one the view gives for a post id that does not exist.
C3_HiddenPostLooksAbsent ==
    (/\ request.view = "PostDetailView"
     /\ request.post_id \in DOMAIN posts
     /\ request.user # posts[request.post_id].author
     /\ ~is_publicly_visible(request.post_id))
       => /\ response.status = 404
          /\ response = PostDetailView_get(request.user, AbsentPostId, now)

C3_Witness ==
    /\ request.view = "PostDetailView"
    /\ request.post_id \in DOMAIN posts
    /\ is_authenticated(request.user)
    /\ request.user # posts[request.post_id].author
    /\ posts[request.post_id].is_published
    /\ posts[request.post_id].pub_date > now
    /\ response = Http404

\* C4: the profile page lists all the profile's posts to the profile's
\* owner and, to every other viewer, exactly the profile's posts that are
\* published, past-dated and whose category is null or published.
C4_ProfileListsVisiblePosts ==
    (request.view = "ProfileView" /\ response.status = 200) =>
        Range(response.context.page_obj) =
            IF request.user = response.context.profile
            THEN {id \in DOMAIN posts :
                    posts[id].author = response.context.profile}
            ELSE {id \in DOMAIN posts :
                    /\ posts[id].author = response.context.profile
                    /\ is_publicly_visible(id)}

\* C10: the category page is NotFound when no category has the slug or the
\* category is unpublished, whatever posts it holds; otherwise it lists,
\* newest first, exactly the category's published past-dated posts.
C10_CategoryListing ==
    request.view \in {"CategoryPostView", "category_posts"} =>
        LET found == {c \in DOMAIN categories :
                        /\ categories[c].slug = request.category_slug
                        /\ categories[c].is_published}
        IN  IF found = {}
            THEN response = Http404
            ELSE /\ response.status = 200
                 /\ response.context.category \in found
                 /\ NoDuplicates(response.context.page_obj)
                 /\ SortedByPubDateDesc(response.context.page_obj)
                 /\ Range(response.context.page_obj) =
                       {id \in DOMAIN posts :
                           /\ posts[id].category = response.context.category
                           /\ posts[id].is_published
                           /\ posts[id].pub_date <= now}

C10_Witness ==
    /\ request.view = "CategoryPostView"
    /\ \E c \in DOMAIN categories :
          /\ categories[c].slug = request.category_slug
          /\ ~categories[c].is_published
          /\ \E id \in DOMAIN posts :
                /\ posts[id].category = c
                /\ posts[id].is_published
                /\ posts[id].pub_date <= now
    /\ response = Http404

\* ------------------------------------------------------------------------
\* Properties of the write views
\* ------------------------------------------------------------------------
PostMutationViews == {"PostUpdateView", "PostDeleteView"}

CommentMutationViews == {"CommentUpdateView", "CommentDeleteView"}

\* C5: an update or delete request for an existing post or comment from
\* an unauthenticated viewer is answered by a redirect to login.
C5_AnonymousRedirectedToLogin ==
    /\ (/\ request.view \in PostMutationViews
        /\ request.user = AnonymousUser
        /\ request.post_id \in DOMAIN posts)
          => response = redirect(LoginUrl)
    /\ (/\ request.view \in CommentMutationViews
        /\ request.user = AnonymousUser
        /\ request.comment_id \in DOMAIN comments)
          => response = redirect(LoginUrl)

\* C6: an update or delete request for a post or comment from an
\* authenticated viewer who is not its author is answered, for GET and
\* for POST alike, by a redirect to the detail page of the record's post,
\* and never by the form.
C6_NonAuthorRedirectedToPostDetail ==
    /\ (/\ request.view \in PostMutationViews
        /\ is_authenticated(request.user)
        /\ request.post_id \in DOMAIN posts
        /\ request.user # posts[request.post_id].author)
          => response = redirect(Url("blog:post_detail", request.post_id, ""))
    /\ (/\ request.view \in CommentMutationViews
        /\ is_authenticated(request.user)
        /\ request.comment_id \in DOMAIN comments
        /\ request.user # comments[request.comment_id].author)
          => response = redirect(Url("blog:post_detail",
                                     comments[request.comment_id].post, ""))

C6_Witness ==
    /\ request.view = "CommentUpdateView"
    /\ request.method = "GET"
    /\ is_authenticated(request.user)
    /\ request.comment_id \in DOMAIN comments
    /\ request.user # comments[request.comment_id].author
    /\ request.user = posts[comments[request.comment_id].post].author
    /\ response.status = 302
    /\ response.url.post_id = comments[request.comment_id].post

PostTouched(id) == id \notin DOMAIN posts' \/ posts'[id] # posts[id]

CommentTouched(c) == c \notin DOMAIN comments' \/ comments'[c] # comments[c]

\* C7 (as claimed): a step changes or deletes a post or a comment only
\* when the request's viewer is that record's author.
C7_OnlyAuthorTouchesRecord ==
    [][/\ \A id \in DOMAIN posts :
             PostTouched(id) => request'.user = posts[id].author
       /\ \A c \in DOMAIN comments :
             CommentTouched(c) => request'.user = comments[c].author]_vars

\* C7 (amended): a step changes or deletes a post only when the request's
\* viewer is the post's author; it changes a comment only when the viewer
\* is the comment's author, and deletes a comment only when the viewer is
\* the comment's author or is the author of the comment's post deleting
\* that post.
C7_OnlyAuthorTouchesRecordOrCascade ==
    [][/\ \A id \in DOMAIN posts :
             PostTouched(id) => request'.user = posts[id].author
       /\ \A c \in DOMAIN comments :
             CommentTouched(c) =>
                \/ request'.user = comments[c].author
                \/ /\ c \notin DOMAIN comments'
                   /\ request'.view = "PostDeleteView"
                   /\ request'.method = "POST"
                   /\ request'.post_id = comments[c].post
                   /\ request'.user = posts[comments[c].post].author
                   /\ comments[c].post \notin DOMAIN posts']_vars

C7_Witness ==
    /\ request.view = "PostDeleteView"
    /\ request.method = "POST"
    /\ request.post_id \in DOMAIN posts
    /\ is_authenticated(request.user)
    /\ request.user # posts[request.post_id].author
    /\ \E c \in DOMAIN comments :
          /\ comments[c].post = request.post_id
          /\ comments[c].author = request.user

CreateViews == {"PostCreateView", "CommentCreateView"}

\* C9: a step that creates a post or a comment is a request of an
\* authenticated user and stores that user as the author, whatever author
\* the client sent; a create request of an unauthenticated viewer creates
\* nothing; no step changes the author of an existing post or comment.
C9_AuthorIsRequestUser ==
    [][/\ \A id \in DOMAIN posts' \ DOMAIN posts :
             /\ is_authenticated(request'.user)
             /\ posts'[id].author = request'.user
       /\ \A c \in DOMAIN comments' \ DOMAIN comments :
             /\ is_authenticated(request'.user)
             /\ comments'[c].author = request'.user
       /\ (request'.view \in CreateViews /\ ~is_authenticated(request'.user))
             => /\ posts' = posts
                /\ comments' = comments
                /\ response' = redirect(LoginUrl)
       /\ \A id \in DOMAIN posts \cap DOMAIN posts' :
             posts'[id].author = posts[id].author
       /\ \A c \in DOMAIN comments \cap DOMAIN comments' :
             comments'[c].author = comments[c].author]_vars

C9_Witness ==
    /\ request.view = "PostCreateView"
    /\ request.method = "POST"
    /\ response.status = 302
    /\ response.url.name = "blog:profile"
    /\ request.author # request.user
    /\ postSeq \in DOMAIN posts
    /\ posts[postSeq].author = request.user

\* ------------------------------------------------------------------------
\* Properties of profile editing
\* ------------------------------------------------------------------------
\* C8: a profile edit request for username T changes a profile only if
\* the viewer's username is T, and then the profile changed is the one
\* named T; an authenticated viewer with another username is redirected
\* to profile(T) and no profile changes.
C8_ProfileEditOnlyOwn ==
    [][request'.view = "ProfileUpdateView" =>
         /\ \A u \in DOMAIN users :
               users'[u] # users[u] =>
                  /\ request'.user = u
                  /\ users[u].username = request'.username
         /\ (/\ is_authenticated(request'.user)
             /\ users[request'.user].username # request'.username)
               => /\ response' = redirect(
                                    Url("blog:profile", 0, request'.username))
                  /\ users' = users]_vars

C8_Witness ==
    /\ request.view = "ProfileUpdateView"
    /\ request.method = "POST"
    /\ is_authenticated(request.user)
    /\ users[request.user].username # request.username
    /\ user_by_username(request.username) # {}
    /\ response = redirect(Url("blog:profile", 0, request.username))

====
